---- MODULE Spec2Model ----
(***************************************************************************)
(* Node analysis of a line network (symbolic_plane_analysis).              *)
(*                                                                         *)
(* do_analysis is a pipeline of pure table transformations:                *)
(*   create_nodes_dataframe -> clip_lines_to_points ->                     *)
(*   create_lines_dataframe -> _create_analysis_dataframe                  *)
(*   (which runs _prepare_node_dataframe, _filter_endpoint_nodes and       *)
(*   calculate_node_angles) -> _create_node_summary_row.                   *)
(*                                                                         *)
(* Geometry.  The geometry library is modelled on a radial world: a data   *)
(* set is a number of junction sites far away from one another, and every  *)
(* line vertex is either the centre of a site or a far end ("tip") lying   *)
(* on one of eight compass rays of its site.  A point is a record          *)
(*   s  : the site,   d : the ray (0..7),   r : the distance from the      *)
(*   centre of the site (in units of the angle buffer's radius),           *)
(*   e4 : 1 when the coordinate carries digits below the 4th decimal,      *)
(*   e6 : 1 when it carries digits below the 6th decimal.                  *)
(* Angles are kept in millidegrees before rounding and in centidegrees     *)
(* (two decimals) after; ratios are kept in thousandths (three decimals).  *)
(***************************************************************************)
EXTENDS Integers, Sequences, FiniteSets

VARIABLES
    pc,                 \* position in do_analysis
    lines,              \* line_features_array: the loaded line features
    angle_buffer,       \* the angle tolerance, in degrees
    nodes_df,           \* create_nodes_dataframe's rows
    clipped_lines,      \* clip_lines_to_points' array
    lines_df,           \* create_lines_dataframe's rows
    pre_analysis,       \* _prepare_node_dataframe's rows
    node_analysis_df,   \* _create_analysis_dataframe's rows
    summary_df          \* _create_node_summary_row's row

vars == <<pc, lines, angle_buffer, nodes_df, clipped_lines, lines_df,
          pre_analysis, node_analysis_df, summary_df>>

----------------------------------------------------------------------------
(* Bounds of the model *)

\* the largest number of line features drawn at the single free-form junction
MaxLines == 4

\* the largest number of junction sites of a network data set
MaxSites == 3

\* the distance of a line's far end from its junction
FarRadius == 6

----------------------------------------------------------------------------
(* Program constants *)

\* shapely.buffer(point, 1, quad_segs=16): the radius of the angle buffer
BufferRadius == 1

\* shapely.buffer(point_array, 2, quad_segs=16): the radius lines are clipped to
ClipRadius == 2

\* the area of the buffer polygon, in area units of one millidegree of disk
BufferArea == 360000

\* the tolerances do_analysis is called with
AngleBuffers == {15, 45}

----------------------------------------------------------------------------
(* The radial world *)

\* the eight compass rays of a site
Dirs == 0 .. 7

\* the ray opposite to ray d
Opp(d) == (d + 4) % 8

\* the compass angle of ray d, in millidegrees; the two diagonal axes are
\* six millidegrees off the 45 degree grid, opposite rays stay opposite
DirAngle(d) ==
    CASE d = 0 -> 0
      [] d = 1 -> 45006
      [] d = 2 -> 90000
      [] d = 3 -> 134994
      [] d = 4 -> 180000
      [] d = 5 -> 225006
      [] d = 6 -> 270000
      [] d = 7 -> 314994

\* a ray along a coordinate axis: points at whole distances on it have
\* coordinates with no digits below the 4th decimal
AxisDir(d) == d % 2 = 0

Centre(s) == [s |-> s, d |-> 0, r |-> 0, e4 |-> 0, e6 |-> 0]

Tip(s, d, e) == [s |-> s, d |-> d, r |-> FarRadius, e4 |-> e, e6 |-> 0]

Min(a, b) == IF a <= b THEN a ELSE b

Max(a, b) == IF a >= b THEN a ELSE b

\* round(4) of a coordinate pair: the digits below the 4th decimal go
Round4(p) == [p EXCEPT !.e4 = 0, !.e6 = 0]

\* shapely.to_wkt writes coordinates with 6 decimals (its default precision)
WktPoint(p) == [p EXCEPT !.e6 = 0]

ToWkt(line) == [i \in 1 .. Len(line) |-> WktPoint(line[i])]

----------------------------------------------------------------------------
(* Geometry primitives (shapely / geopandas) on the radial world *)

NoInterval == [lo |-> 1, hi |-> 0]

\* the part of ray d of site s inside the disk of radius R around n, as an
\* interval of distances from the centre.  A far end is further from every
\* other ray than any disk radius used (FarRadius * sin 45 > ClipRadius), so
\* the disk around a far end meets its own ray only.
DiskOnRay(n, R, s, d) ==
    IF n.s # s THEN NoInterval
    ELSE IF n.r = 0 THEN [lo |-> 0, hi |-> R]
    ELSE IF n.d = d THEN [lo |-> Max(0, n.r - R), hi |-> n.r + R]
    ELSE NoInterval

\* vertex v lies in the disk of radius R around n
Inside(v, n, R) ==
    LET I == DiskOnRay(n, R, v.s, v.d)
    IN  IF v.r = 0 THEN v.s = n.s /\ n.r <= R
        ELSE I.lo <= v.r /\ v.r <= I.hi

\* the straight segment from p to q as radial legs: along one ray, or
\* through the centre when p and q lie on opposite rays
Legs(p, q) ==
    IF p.r = 0 /\ q.r = 0 THEN << >>
    ELSE IF p.r = 0 THEN << [s |-> q.s, d |-> q.d, from |-> 0, to |-> q.r] >>
    ELSE IF q.r = 0 THEN << [s |-> p.s, d |-> p.d, from |-> p.r, to |-> 0] >>
    ELSE IF p.d = q.d THEN << [s |-> p.s, d |-> p.d, from |-> p.r, to |-> q.r] >>
    ELSE << [s |-> p.s, d |-> p.d, from |-> p.r, to |-> 0],
            [s |-> q.s, d |-> q.d, from |-> 0, to |-> q.r] >>

\* a point computed by an intersection: on a diagonal ray its coordinates
\* are irrational, on an axis ray they stay on the grid of the disk's centre
CutPoint(s, d, r) ==
    [s |-> s, d |-> d, r |-> r,
     e4 |-> IF AxisDir(d) THEN 0 ELSE 1,
     e6 |-> IF AxisDir(d) THEN 0 ELSE 1]

\* the points where a leg crosses the boundary of the disk, in travel order
LegCrossings(leg, n, R) ==
    LET I    == DiskOnRay(n, R, leg.s, leg.d)
        a    == Min(leg.from, leg.to)
        b    == Max(leg.from, leg.to)
        isLo == I.lo <= I.hi /\ I.lo > 0 /\ a < I.lo /\ I.lo < b
        isHi == I.lo <= I.hi /\ a < I.hi /\ I.hi < b
        lo   == IF isLo THEN << CutPoint(leg.s, leg.d, I.lo) >> ELSE << >>
        hi   == IF isHi THEN << CutPoint(leg.s, leg.d, I.hi) >> ELSE << >>
    IN  IF leg.from <= leg.to THEN lo \o hi ELSE hi \o lo

RECURSIVE Flatten(_)
Flatten(ss) == IF ss = << >> THEN << >> ELSE Head(ss) \o Flatten(Tail(ss))

\* the boundary crossings of the segment from p to q
SegCrossings(p, q, n, R) ==
    LET legs == Legs(p, q)
    IN  Flatten([k \in 1 .. Len(legs) |-> LegCrossings(legs[k], n, R)])

\* shapely.intersection(disk, line): the part of the line inside the disk,
\* its vertices inside and the boundary crossings, in the line's direction
Intersection(line, n, R) ==
    Flatten([i \in 1 .. Len(line) |->
        (IF Inside(line[i], n, R) THEN << line[i] >> ELSE << >>)
        \o (IF i < Len(line)
            THEN SegCrossings(line[i], line[i + 1], n, R) ELSE << >>)])

----------------------------------------------------------------------------
(* Line features *)

\* a line from the junction to a far end
Arm(s, d, e) == << Centre(s), Tip(s, d, e) >>

\* a line from a far end to the junction
RevArm(s, d, e) == << Tip(s, d, e), Centre(s) >>

\* a line of three vertices with its middle vertex at the junction
Bend(s, d1, d2) == << Tip(s, d1, 0), Centre(s), Tip(s, d2, 0) >>

\* a straight line of two vertices that passes over the junction point
Through(s, d) == << Tip(s, d, 0), Tip(s, Opp(d), 0) >>

\* the line features that can be drawn at site s: an arm along every ray,
\* arms drawn towards the junction whose far end is off the 4-decimal grid,
\* straight and bent lines with a vertex at the junction, and lines that
\* pass over the junction without a vertex there
FeatureList(s) ==
    [i \in 1 .. 8 |-> Arm(s, i - 1, 0)]
    \o [i \in 1 .. 4 |-> RevArm(s, i - 1, 1)]
    \o << Bend(s, 0, 4), Bend(s, 2, 6), Bend(s, 0, 2), Bend(s, 1, 4) >>
    \o << Through(s, 0), Through(s, 2) >>

\* the index sequences of at most n features, in nondecreasing order (the
\* pipeline reads a feature collection; its tables do not depend on the order)
RECURSIVE IndexSeqs(_, _)
IndexSeqs(n, F) ==
    IF n = 0 THEN { << >> }
    ELSE LET P == IndexSeqs(n - 1, F)
         IN  P \cup UNION { { Append(q, f) :
                                f \in (IF q = << >> THEN 1 ELSE q[Len(q)]) .. F } :
                            q \in { x \in P : Len(x) = n - 1 } }

\* the data sets with one free-form junction
JunctionInputs ==
    LET FL == FeatureList(1)
    IN  { [i \in 1 .. Len(q) |-> FL[q[i]]] : q \in IndexSeqs(MaxLines, Len(FL)) }

\* the junctions a network data set is made of
JunctionKinds(s) ==
    << << Arm(s, 0, 0), Arm(s, 2, 0), Arm(s, 4, 0), Arm(s, 6, 0) >>,
       << Arm(s, 0, 0), Arm(s, 2, 0), Arm(s, 4, 0) >>,
       << Arm(s, 0, 0), Arm(s, 3, 0), Arm(s, 5, 0) >>,
       << Arm(s, 0, 0), Arm(s, 3, 0), Arm(s, 4, 0) >>,
       << Arm(s, 0, 0), Arm(s, 1, 0), Arm(s, 2, 0), Arm(s, 4, 0), Arm(s, 6, 0) >>,
       << Through(s, 0), Arm(s, 2, 0) >>,
       << Arm(s, 0, 0) >> >>

\* the data sets of two to MaxSites junctions, one junction kind per site
NetworkInputs ==
    UNION { { Flatten([s \in 1 .. k |-> JunctionKinds(s)[c[s]]]) :
                c \in [1 .. k -> 1 .. Len(JunctionKinds(1))] } :
            k \in 2 .. MaxSites }

----------------------------------------------------------------------------
(* create_nodes_dataframe *)

\* shapely.get_coordinates: every vertex of every line
GetCoordinates(ls) == Flatten(ls)

\* pl.count("x_coord").over(["x_coord", "y_coord"])
CountOver(coords, c) == Cardinality({ i \in 1 .. Len(coords) : coords[i] = c })

\* the occurrences counted before the coordinates are rounded
CreateNodesDataframe_CountUnrounded(ls) ==
    LET coords  == GetCoordinates(ls)
        counted == { [coord      |-> Round4(coords[i]),
                      num_coords |-> CountOver(coords, coords[i]),
                      geometry   |-> WktPoint(Round4(coords[i]))] :
                     i \in 1 .. Len(coords) }
    IN  { row \in counted : row.num_coords # 2 }

CreateNodesDataframe(ls) ==
    LET coords  == GetCoordinates(ls)
        rounded == [i \in 1 .. Len(coords) |-> Round4(coords[i])]
        counted == { [coord      |-> rounded[i],
                      num_coords |-> CountOver(rounded, rounded[i]),
                      geometry   |-> WktPoint(rounded[i])] :
                     i \in 1 .. Len(rounded) }
    IN  { row \in counted : row.num_coords # 2 }

----------------------------------------------------------------------------
(* clip_lines_to_points *)

Rank(p) == ((p.s * 100 + p.r) * 10 + p.d) * 4 + p.e4 * 2 + p.e6

RECURSIVE SortPoints(_)
SortPoints(S) ==
    IF S = {} THEN << >>
    ELSE LET m == CHOOSE p \in S : \A q \in S : Rank(p) <= Rank(q)
         IN  << m >> \o SortPoints(S \ {m})

\* lines_gdf.overlay(buffer_gdf): one row for every line and every buffer
\* the line crosses, holding the part of the line inside that buffer; an
\* intersection that is no line (empty, a single point) gives no row
ClipLinesToPoints(point_array, ls) ==
    LET nodes == SortPoints(point_array)
        cut(i, k) == Intersection(ls[i], nodes[k], ClipRadius)
    IN  Flatten([i \in 1 .. Len(ls) |->
            Flatten([k \in 1 .. Len(nodes) |->
                IF Len(cut(i, k)) >= 2 THEN << cut(i, k) >> ELSE << >>])])

----------------------------------------------------------------------------
(* create_lines_dataframe *)

\* shapely.get_point(geometry, index): the vertex at the (0-based) index
GetPoint(line, index) == line[index + 1]

CreateLinesDataframe(linestring_array) ==
    [i \in 1 .. Len(linestring_array) |->
        [geometry |-> linestring_array[i],
         point_1  |-> GetPoint(linestring_array[i], 0),
         point_2  |-> GetPoint(linestring_array[i], 1)]]

----------------------------------------------------------------------------
(* _filter_endpoint_nodes *)

\* the segments of the line to the node, one for every vertex of every line
\* that differs from the node after rounding
\* the loop without its "continue": a segment for the node's own vertex too
RECURSIVE Explode_KeepNodeVertex(_, _)
Explode_KeepNodeVertex(intersecting_lines, node_point) ==
    IF intersecting_lines = << >> THEN << >>
    ELSE LET line == Head(intersecting_lines)
             segs == [k \in 1 .. Len(line) |->
                         << ToWkt(<< Round4(line[k]), node_point >>) >>]
         IN  Flatten(segs)
                 \o Explode_KeepNodeVertex(Tail(intersecting_lines), node_point)

RECURSIVE Explode(_, _)
Explode(intersecting_lines, node_point) ==
    IF intersecting_lines = << >> THEN << >>
    ELSE LET line == Head(intersecting_lines)
             segs == [k \in 1 .. Len(line) |->
                         IF node_point = Round4(line[k]) THEN << >>
                         ELSE << ToWkt(<< Round4(line[k]), node_point >>) >>]
         IN  Flatten(segs) \o Explode(Tail(intersecting_lines), node_point)

\* the early return taken for no intersecting line instead of for one
FilterEndpointNodes_NoLine(point, buffer, lines_array) ==
    LET intersecting_lines ==
            SelectSeq(lines_array,
                      LAMBDA l : Intersection(l, buffer.centre, buffer.radius) # << >>)
    IN  IF Len(intersecting_lines) = 0 THEN << >>
        ELSE Explode(intersecting_lines, point)

FilterEndpointNodes(point, buffer, lines_array) ==
    LET intersecting_lines ==
            SelectSeq(lines_array,
                      LAMBDA l : Intersection(l, buffer.centre, buffer.radius) # << >>)
    IN  IF Len(intersecting_lines) = 1 THEN << >>
        ELSE Explode(intersecting_lines, point)

----------------------------------------------------------------------------
(* _prepare_node_dataframe *)

\* the null a left join leaves where no line row matches: no geometry
Null == << >>

\* line_df.melt: a row per line for point_1, then a row per line for point_2
Melt(line_df) ==
    [i \in 1 .. Len(line_df) |->
        [geometry |-> line_df[i].geometry, coord |-> Round4(line_df[i].point_1)]]
    \o [i \in 1 .. Len(line_df) |->
        [geometry |-> line_df[i].geometry, coord |-> Round4(line_df[i].point_2)]]

\* node_df.join(melt, how="left") grouped by node: the lines of the node
JoinedLines(node, melt) ==
    LET hits == SelectSeq(melt, LAMBDA m : m.coord = node.coord)
    IN  IF hits = << >> THEN << Null >>
        ELSE [k \in 1 .. Len(hits) |-> ToWkt(hits[k].geometry)]

\* shapely.buffer(point, 1, quad_segs=16)
Buffer(point, radius) == [centre |-> point, radius |-> radius]

ResolvedLines(node, melt, line_array) ==
    IF node.num_coords = 1
    THEN FilterEndpointNodes(node.geometry,
                             Buffer(node.geometry, BufferRadius), line_array)
    ELSE JoinedLines(node, melt)

\* a row of the prepared table: the node, its buffer and its lines
PreparedRow(node, node_lines) ==
    [geometry   |-> node.geometry,
     buffer     |-> Buffer(node.geometry, BufferRadius),
     node_lines |-> node_lines,
     num_lines  |-> Len(node_lines)]

PrepareNodeDataframe(node_df, line_df, line_array) ==
    LET melt == Melt(line_df)
        rows == { PreparedRow(node, ResolvedLines(node, melt, line_array)) :
                  node \in node_df }
    IN  { row \in rows : row.num_lines > 0 }

----------------------------------------------------------------------------
(* calculate_node_angles *)

\* the direction, seen from the centre n of the buffer, of a point c on the
\* buffer's boundary, in millidegrees
RelAngle(c, n) ==
    IF n.r = 0 THEN DirAngle(c.d)
    ELSE IF c.r < n.r THEN (DirAngle(n.d) + 180000) % 360000
    ELSE DirAngle(n.d)

\* the points where a line crosses the boundary of the disk
LineCrossings(line, n, R) ==
    Flatten([k \in 1 .. (Len(line) - 1) |->
                SegCrossings(line[k], line[k + 1], n, R)])

Range(seq) == { seq[i] : i \in 1 .. Len(seq) }

\* the directions in which the lines cut the boundary of the buffer
CutAngles(buffer, node_lines) ==
    UNION { { RelAngle(c, buffer.centre) :
                c \in Range(LineCrossings(node_lines[i], buffer.centre,
                                          buffer.radius)) } :
            i \in 1 .. Len(node_lines) }

RECURSIVE SortInts(_)
SortInts(S) ==
    IF S = {} THEN << >>
    ELSE LET m == CHOOSE a \in S : \A b \in S : a <= b
         IN  << m >> \o SortInts(S \ {m})

\* the area of the slice of the buffer between two cuts, in area units
SliceArea(span) == span * (BufferArea \div 360000)

\* _split_polygon_by_linestrings: the areas of the faces the lines, which
\* all meet at the centre, cut the buffer polygon into.  One cut or none
\* leaves the polygon whole.
SplitPolygonByLinestrings(buffer, node_lines) ==
    LET cuts == SortInts(CutAngles(buffer, node_lines))
        n    == Len(cuts)
    IN  IF n <= 1 THEN << BufferArea >>
        ELSE [i \in 1 .. n |->
                 IF i < n THEN SliceArea(cuts[i + 1] - cuts[i])
                 ELSE SliceArea(360000 - cuts[n] + cuts[1])]

\* the slices measured against the area of the circle, pi * r * r, which is
\* larger than the area of the 64-sided buffer polygon by 1.6 in a thousand
CalculateNodeAngles_CircleArea(buffer, node_lines) ==
    LET sub_polygons == SplitPolygonByLinestrings(buffer, node_lines)
    IN  [i \in 1 .. Len(sub_polygons) |->
            (sub_polygons[i] * 3600) \div ((BufferArea \div 1000) * 10 + 6)]

\* (slice.area / buffer_polygon.area) * 360, in millidegrees
CalculateNodeAngles(buffer, node_lines) ==
    LET sub_polygons == SplitPolygonByLinestrings(buffer, node_lines)
    IN  [i \in 1 .. Len(sub_polygons) |->
            (sub_polygons[i] * 360) \div (BufferArea \div 1000)]

----------------------------------------------------------------------------
(* _create_analysis_dataframe *)

\* round(2): millidegrees to centidegrees, halves away from zero
Round2(x) == (x + 5) \div 10

\* pl.element().is_between(lo, hi): both ends included; a in centidegrees
IsBetween(a, lo, hi) == lo * 100 <= a /\ a <= hi * 100

Near90(a, ab) == IsBetween(a, 90 - ab, 90 + ab)

Near180(a, ab) == IsBetween(a, 180 - ab, 180 + ab)

ListAll(degrees, P(_)) == \A i \in 1 .. Len(degrees) : P(degrees[i])

ListAny(degrees, P(_)) == \E i \in 1 .. Len(degrees) : P(degrees[i])

NodeType(num_lines, degrees, ab) ==
    IF num_lines = 4 /\ ListAll(degrees, LAMBDA a : Near90(a, ab)) THEN "X"
    ELSE IF num_lines = 3
            /\ ListAll(degrees, LAMBDA a : Near90(a, ab) \/ Near180(a, ab))
    THEN "T"
    ELSE IF num_lines = 3
            /\ ~ ListAll(degrees, LAMBDA a : Near90(a, ab) \/ Near180(a, ab))
    THEN "Y"
    ELSE "#"

\* Regularity with the Y test asking for every angle, not any, near 180
Regularity_AllStraight(node_type, degrees, ab) ==
    IF node_type = "T" THEN "irregular"
    ELSE IF node_type = "X" \/ node_type = "#" THEN "regular"
    ELSE IF node_type = "Y" /\ ListAll(degrees, LAMBDA a : Near180(a, ab))
    THEN "irregular"
    ELSE "regular"

Regularity(node_type, degrees, ab) ==
    IF node_type = "T" THEN "irregular"
    ELSE IF node_type = "X" \/ node_type = "#" THEN "regular"
    ELSE IF node_type = "Y" /\ ListAny(degrees, LAMBDA a : Near180(a, ab))
    THEN "irregular"
    ELSE "regular"

\* num_lines left as it is, whatever the regularity
AdjustedNumLines_Unadjusted(regularity, num_lines) == num_lines

AdjustedNumLines(regularity, num_lines) ==
    IF regularity = "irregular" THEN num_lines - 1 ELSE num_lines

AnalysisRow(pre, ab) ==
    LET raw        == CalculateNodeAngles(pre.buffer, pre.node_lines)
        degrees    == [i \in 1 .. Len(raw) |-> Round2(raw[i])]
        node_type  == NodeType(pre.num_lines, degrees, ab)
        regularity == Regularity(node_type, degrees, ab)
    IN  [geometry   |-> pre.geometry,
         degrees    |-> degrees,
         num_lines  |-> AdjustedNumLines(regularity, pre.num_lines),
         node_type  |-> node_type,
         regularity |-> regularity]

CreateAnalysisDataframe(pre, ab) == { AnalysisRow(row, ab) : row \in pre }

\* shapely cannot build a line from a null
RaisesOnNull(pre) ==
    \E row \in pre : \E i \in 1 .. Len(row.node_lines) : row.node_lines[i] = Null

----------------------------------------------------------------------------
(* _create_node_summary_row *)

\* float values: a ratio n/d before rounding, a number of thousandths after
NaN == [kind |-> "nan"]

Inf == [kind |-> "inf"]

NullValue == [kind |-> "null"]

Num(v) == [kind |-> "num", v |-> v]

\* a division that gives NaN for every zero denominator
Divide_NanOnZero(a, b) ==
    IF b = 0 THEN NaN ELSE [kind |-> "ratio", n |-> a, d |-> b]

\* polars' "/" of two integer columns: float division, which does not raise
Divide(a, b) ==
    IF b = 0 THEN (IF a = 0 THEN NaN ELSE Inf)
    ELSE [kind |-> "ratio", n |-> a, d |-> b]

\* round(3): to thousandths, halves away from zero; NaN, inf and null stay
Round3(x) ==
    IF x.kind = "ratio" THEN Num((2 * 1000 * x.n + x.d) \div (2 * x.d))
    ELSE x

\* pl.col(c).filter(pl.col(c) == value).count()
CountWhere(df, P(_)) == Cardinality({ row \in df : P(row) })

RECURSIVE SumSeq(_)
SumSeq(q) == IF q = << >> THEN 0 ELSE Head(q) + SumSeq(Tail(q))

\* the rows of a table, one after the other
RECURSIVE Rows(_)
Rows(df) ==
    IF df = {} THEN << >>
    ELSE LET row == CHOOSE r \in df : TRUE
         IN  << row >> \o Rows(df \ {row})

SumOver(df, f(_)) ==
    LET rows == Rows(df)
    IN  SumSeq([i \in 1 .. Len(rows) |-> f(rows[i])])

\* pl.col("degrees").explode().is_between(lo, hi).sum()
CountAngles(df, P(_)) ==
    SumOver(df, LAMBDA row :
        Cardinality({ i \in 1 .. Len(row.degrees) : P(row.degrees[i]) }))

\* the ratio rounded to two decimals instead of three
TypeRatio_TwoDecimals(df, node_type) ==
    LET x == Divide(CountWhere(df, LAMBDA row : row.node_type = node_type),
                    Cardinality(df))
    IN  IF x.kind = "ratio"
        THEN Num(10 * ((2 * 100 * x.n + x.d) \div (2 * x.d)))
        ELSE x

TypeRatio(df, node_type) ==
    Round3(Divide(CountWhere(df, LAMBDA row : row.node_type = node_type),
                  Cardinality(df)))

\* the largest m with m * m <= y, for lo * lo <= y < hi * hi
RECURSIVE Isqrt(_, _, _)
Isqrt(y, lo, hi) ==
    IF hi - lo <= 1 THEN lo
    ELSE LET mid == (lo + hi) \div 2
         IN  IF mid * mid <= y THEN Isqrt(y, mid, hi) ELSE Isqrt(y, lo, mid)

\* pl.col("num_lines").mean().round(3): null for no rows
Mean3(df) ==
    IF df = {} THEN NullValue
    ELSE Round3(Divide(SumOver(df, LAMBDA row : row.num_lines), Cardinality(df)))

\* pl.col("num_lines").std().round(3): the sample standard deviation, null
\* for fewer than two rows
Std3(df) ==
    LET n  == Cardinality(df)
        s1 == SumOver(df, LAMBDA row : row.num_lines)
        s2 == SumOver(df, LAMBDA row : row.num_lines * row.num_lines)
        y  == ((n * s2 - s1 * s1) * 1000000) \div (n * (n - 1))
        m  == Isqrt(y, 0, 46340)
    IN  IF n <= 1 THEN NullValue
        ELSE Num(IF y - m * m > m THEN m + 1 ELSE m)

CreateNodeSummaryRow(analysis_df, ab) ==
    << [n_bar        |-> Mean3(analysis_df),
        n_bar_std    |-> Std3(analysis_df),
        node_count   |-> Cardinality(analysis_df),
        ratio_T      |-> TypeRatio(analysis_df, "T"),
        ratio_Y      |-> TypeRatio(analysis_df, "Y"),
        ratio_X      |-> TypeRatio(analysis_df, "X"),
        ratio_O      |-> TypeRatio(analysis_df, "#"),
        ratio_180_90 |->
            Round3(Divide(CountAngles(analysis_df, LAMBDA a : Near180(a, ab)),
                          CountAngles(analysis_df, LAMBDA a : Near90(a, ab)))),
        regularity   |->
            Round3(Divide(CountWhere(analysis_df,
                                     LAMBDA row : row.regularity = "regular"),
                          Cardinality(analysis_df)))] >>

----------------------------------------------------------------------------
(* do_analysis *)

Init ==
    /\ pc = "start"
    /\ lines \in JunctionInputs \cup NetworkInputs
    /\ angle_buffer \in AngleBuffers
    /\ nodes_df = {}
    /\ clipped_lines = << >>
    /\ lines_df = << >>
    /\ pre_analysis = {}
    /\ node_analysis_df = {}
    /\ summary_df = << >>

CreateNodes ==
    /\ pc = "start"
    /\ nodes_df' = CreateNodesDataframe(lines)
    /\ pc' = "nodes"
    /\ UNCHANGED <<lines, angle_buffer, clipped_lines, lines_df, pre_analysis,
                   node_analysis_df, summary_df>>

ClipLines ==
    /\ pc = "nodes"
    /\ clipped_lines' =
           ClipLinesToPoints({ row.geometry : row \in nodes_df }, lines)
    /\ pc' = "clipped"
    /\ UNCHANGED <<lines, angle_buffer, nodes_df, lines_df, pre_analysis,
                   node_analysis_df, summary_df>>

CreateLines ==
    /\ pc = "clipped"
    /\ lines_df' = CreateLinesDataframe(clipped_lines)
    /\ pc' = "lines"
    /\ UNCHANGED <<lines, angle_buffer, nodes_df, clipped_lines, pre_analysis,
                   node_analysis_df, summary_df>>

CreateAnalysis ==
    /\ pc = "lines"
    /\ pre_analysis' = PrepareNodeDataframe(nodes_df, lines_df, clipped_lines)
    /\ IF RaisesOnNull(pre_analysis')
       THEN /\ pc' = "raised"
            /\ UNCHANGED node_analysis_df
       ELSE /\ pc' = "analysed"
            /\ node_analysis_df' =
                   CreateAnalysisDataframe(pre_analysis', angle_buffer)
    /\ UNCHANGED <<lines, angle_buffer, nodes_df, clipped_lines, lines_df,
                   summary_df>>

CreateSummary ==
    /\ pc = "analysed"
    /\ summary_df' = CreateNodeSummaryRow(node_analysis_df, angle_buffer)
    /\ pc' = "done"
    /\ UNCHANGED <<lines, angle_buffer, nodes_df, clipped_lines, lines_df,
                   pre_analysis, node_analysis_df>>

Next == CreateNodes \/ ClipLines \/ CreateLines \/ CreateAnalysis \/ CreateSummary

Spec == Init /\ [][Next]_vars

----------------------------------------------------------------------------
(* Properties of the node classification, rows of node_analysis_df *)

\* C1, as stated: a node is labelled X exactly when its buffer is cut into
\* four sectors and every angle lies within the tolerance of 90 degrees, and
\* every X row is recorded with num_lines = 4 and all its angles near 90.
\* The code tests the number of lines of the node, not the number of sectors.
C1_XIffFourSectorsNear90 ==
    \A row \in node_analysis_df :
        LET all90 == \A i \in 1 .. Len(row.degrees) :
                         Near90(row.degrees[i], angle_buffer)
        IN  /\ (row.node_type = "X") <=> (Len(row.degrees) = 4 /\ all90)
            /\ (row.node_type = "X") => (row.num_lines = 4 /\ all90)

\* C2, as stated: a node is labelled T exactly when it has three sectors and
\* every angle is near 90 or near 180, and Y exactly when it has three sectors
\* and some angle is near neither; no node with another sector count is T or Y.
C2_TYIffThreeSectors ==
    \A row \in node_analysis_df :
        LET allRightOrStraight ==
                \A i \in 1 .. Len(row.degrees) :
                    \/ Near90(row.degrees[i], angle_buffer)
                    \/ Near180(row.degrees[i], angle_buffer)
        IN  /\ (row.node_type = "T")
                   <=> (Len(row.degrees) = 3 /\ allRightOrStraight)
            /\ (row.node_type = "Y")
                   <=> (Len(row.degrees) = 3 /\ ~ allRightOrStraight)
            /\ (row.node_type \in {"T", "Y"}) => Len(row.degrees) = 3

\* C3: the regularity of a row follows from its node type and its angles:
\* T is irregular, X and # are regular, and Y is irregular exactly when one
\* of its angles lies within the tolerance of 180 degrees.
C3_RegularityRule ==
    \A row \in node_analysis_df :
        LET straight ==
                \E i \in 1 .. Len(row.degrees) :
                    /\ (180 - angle_buffer) * 100 <= row.degrees[i]
                    /\ row.degrees[i] <= (180 + angle_buffer) * 100
        IN  /\ row.regularity \in {"regular", "irregular"}
            /\ (row.node_type = "T") => row.regularity = "irregular"
            /\ (row.node_type \in {"X", "#"}) => row.regularity = "regular"
            /\ (row.node_type = "Y")
                   => ((row.regularity = "irregular") <=> straight)

\* a Y node with one angle near 180 and another that is not: irregular
C3_Witness ==
    \E row \in node_analysis_df :
        /\ row.node_type = "Y"
        /\ row.regularity = "irregular"
        /\ \E i \in 1 .. Len(row.degrees) :
               ~ Near180(row.degrees[i], angle_buffer)

\* C4: the recorded num_lines of a row is the number of lines resolved for
\* its node, less one when the row is irregular and unchanged when it is
\* regular; a T node of three lines is recorded with num_lines = 2.
C4_NumLinesAdjustedOnce ==
    (pc \in {"analysed", "done"}) =>
        \A row \in node_analysis_df :
            \E pre \in pre_analysis :
                /\ pre.geometry = row.geometry
                /\ (row.regularity = "irregular")
                       => row.num_lines = Len(pre.node_lines) - 1
                /\ (row.regularity = "regular")
                       => row.num_lines = Len(pre.node_lines)
                /\ (row.node_type = "T" /\ Len(pre.node_lines) = 3)
                       => row.num_lines = 2

\* a T node resolved to three lines, recorded with two
C4_Witness ==
    /\ pc = "analysed"
    /\ \E row \in node_analysis_df : \E pre \in pre_analysis :
           /\ pre.geometry = row.geometry
           /\ row.node_type = "T"
           /\ Len(pre.node_lines) = 3
           /\ row.num_lines = 2

----------------------------------------------------------------------------
(* Properties of the summary row *)

\* C5, as stated: with at least one node the four rounded type ratios add up
\* to exactly 1 (1000 thousandths).
C5_RatiosSumToOne ==
    (pc = "done" /\ summary_df[1].node_count > 0) =>
        LET row == summary_df[1]
        IN  /\ \A x \in {row.ratio_T, row.ratio_Y, row.ratio_X, row.ratio_O} :
                   x.kind = "num"
            /\ row.ratio_T.v + row.ratio_Y.v + row.ratio_X.v + row.ratio_O.v
                   = 1000

\* C5, amended: with at least one node the four type ratios, each rounded to
\* three decimals, add up to 1 within 0.002.
C5_RatiosSumNearOne ==
    (pc = "done" /\ summary_df[1].node_count > 0) =>
        LET row   == summary_df[1]
            total == row.ratio_T.v + row.ratio_Y.v + row.ratio_X.v
                         + row.ratio_O.v
        IN  /\ \A x \in {row.ratio_T, row.ratio_Y, row.ratio_X, row.ratio_O} :
                   x.kind = "num"
            /\ 998 <= total /\ total <= 1002

\* three node types share the nodes, and the rounded ratios miss 1
C5_Witness ==
    /\ pc = "done"
    /\ summary_df[1].node_count > 0
    /\ summary_df[1].ratio_T.v + summary_df[1].ratio_Y.v
           + summary_df[1].ratio_X.v + summary_df[1].ratio_O.v # 1000

\* C8, as stated: with no node, or with no angle near 90, the summary is
\* made and its ratio_180_90 is NaN or null.
C8_RatioNanWithoutRightAngles ==
    (pc = "done"
        /\ CountAngles(node_analysis_df, LAMBDA a : Near90(a, angle_buffer)) = 0)
        => summary_df[1].ratio_180_90.kind \in {"nan", "null"}

\* C8, amended: with no node, or with no angle near 90, the summary is made
\* without raising and its ratio_180_90 is no finite number: NaN when no
\* angle is near 180 either (so with no node at all), and infinite when
\* some angle is near 180.
C8_RatioNotFiniteWithoutRightAngles ==
    LET right    == CountAngles(node_analysis_df,
                                LAMBDA a : Near90(a, angle_buffer))
        straight == CountAngles(node_analysis_df,
                                LAMBDA a : Near180(a, angle_buffer))
    IN  /\ (pc = "analysed" /\ right = 0) => ENABLED CreateSummary
        /\ (pc = "done" /\ right = 0) =>
               /\ (straight = 0) => summary_df[1].ratio_180_90.kind = "nan"
               /\ (straight > 0) => summary_df[1].ratio_180_90.kind = "inf"
        /\ (pc = "done" /\ node_analysis_df = {}) =>
               /\ summary_df[1].node_count = 0
               /\ summary_df[1].ratio_180_90.kind = "nan"

\* lines whose only nodes are dead ends: no junction, and the ratio is NaN
C8_Witness ==
    /\ pc = "done"
    /\ nodes_df # {}
    /\ node_analysis_df = {}
    /\ summary_df[1].ratio_180_90 = NaN

----------------------------------------------------------------------------
(* Properties of the node and line tables *)

\* C6: create_nodes_dataframe returns no coordinate that occurs exactly twice
\* among the vertices of all the lines, the vertices taken rounded to four
\* decimals as the node coordinates are.
C6_NoPassThroughNode ==
    (pc # "start") =>
        \A row \in nodes_df :
            LET vertices == UNION { { <<i, k>> : k \in 1 .. Len(lines[i]) } :
                                    i \in 1 .. Len(lines) }
                places   == { ik \in vertices :
                                Round4(lines[ik[1]][ik[2]]) = row.coord }
            IN  Cardinality(places) # 2

\* two vertices that differ only below the fourth decimal make a coordinate
\* that occurs twice, next to coordinates that are nodes
C6_Witness ==
    /\ pc = "nodes"
    /\ nodes_df # {}
    /\ \E i, j \in 1 .. Len(lines) :
           \E k \in 1 .. Len(lines[i]) : \E m \in 1 .. Len(lines[j]) :
               /\ lines[i][k] # lines[j][m]
               /\ Round4(lines[i][k]) = Round4(lines[j][m])
               /\ CountOver([n \in 1 .. Len(GetCoordinates(lines)) |->
                                Round4(GetCoordinates(lines)[n])],
                            Round4(lines[i][k])) = 2
               /\ \A row \in nodes_df : row.coord # Round4(lines[i][k])

\* C7: the angles recorded for a node, each rounded to two decimals, add up
\* to 360 degrees within 0.1.
C7_AnglesSumTo360 ==
    \A row \in node_analysis_df :
        /\ 36000 - 10 <= SumSeq(row.degrees)
        /\ SumSeq(row.degrees) <= 36000 + 10

\* three sectors or more whose rounded angles do not add up to 360 exactly
C7_Witness ==
    \E row \in node_analysis_df :
        /\ Len(row.degrees) >= 3
        /\ SumSeq(row.degrees) # 36000

C10_EndpointsOfEveryLine ==
    (pc \in {"lines", "analysed", "done", "raised"}) =>
        /\ Len(lines_df) = Len(clipped_lines)
        /\ \A i \in 1 .. Len(lines_df) :
               /\ lines_df[i].geometry = clipped_lines[i]
               /\ lines_df[i].point_1 = clipped_lines[i][1]
               /\ lines_df[i].point_2 =
                      clipped_lines[i][Len(clipped_lines[i])]

\* C11, as stated: whatever the tolerance, a node is labelled T only if it
\* has exactly three angles, exactly two of them within the tolerance of 90
\* degrees and exactly one within the tolerance of 180 degrees.
C11_TOnlyTwoRightOneStraight ==
    \A row \in node_analysis_df :
        (row.node_type = "T") =>
            LET right    == { i \in 1 .. Len(row.degrees) :
                                Near90(row.degrees[i], angle_buffer) }
                straight == { i \in 1 .. Len(row.degrees) :
                                Near180(row.degrees[i], angle_buffer) }
            IN  /\ Len(row.degrees) = 3
                /\ Cardinality(right) = 2
                /\ Cardinality(straight) = 1

----------------------------------------------------------------------------
(* Properties of the lines resolved for an endpoint node *)

\* C12, as stated: an endpoint node (a coordinate that occurs once) whose
\* buffer meets two lines or more has one resolved line for every line its
\* buffer meets: the line itself when it passes through the node, and a
\* segment from a vertex of the line to the node when it does not.
C12_OneEntryPerIntersectingLine ==
    (pc \in {"analysed", "done"}) =>
        \A node \in nodes_df :
            LET met == { i \in 1 .. Len(clipped_lines) :
                           Intersection(clipped_lines[i], node.geometry,
                                        BufferRadius) # << >> }
                through(i) == \E k \in 1 .. Len(clipped_lines[i]) :
                                  Round4(clipped_lines[i][k]) = node.geometry
            IN  (node.num_coords = 1 /\ Cardinality(met) >= 2) =>
                    \E row \in pre_analysis :
                        /\ row.geometry = node.geometry
                        /\ Len(row.node_lines) = Cardinality(met)
                        /\ \A i \in met :
                               \E n \in 1 .. Len(row.node_lines) :
                                   IF through(i)
                                   THEN row.node_lines[n] = ToWkt(clipped_lines[i])
                                   ELSE \E k \in 1 .. Len(clipped_lines[i]) :
                                            row.node_lines[n] =
                                                ToWkt(<< Round4(clipped_lines[i][k]),
                                                         node.geometry >>)

\* C12, amended: an endpoint node whose buffer meets two lines or more has
\* one resolved line for every vertex, of every line its buffer meets, that
\* differs from the node after rounding to four decimals: the segment from
\* that rounded vertex to the node.  A vertex on the node gives nothing.
C12_OneSegmentPerOtherVertex ==
    (pc \in {"analysed", "done"}) =>
        \A node \in nodes_df :
            LET met   == { i \in 1 .. Len(clipped_lines) :
                             Intersection(clipped_lines[i], node.geometry,
                                          BufferRadius) # << >> }
                other == { ik \in UNION { { <<i, k>> :
                                              k \in 1 .. Len(clipped_lines[i]) } :
                                          i \in met } :
                             Round4(clipped_lines[ik[1]][ik[2]]) # node.geometry }
            IN  (node.num_coords = 1 /\ Cardinality(met) >= 2) =>
                    \E row \in pre_analysis :
                        /\ row.geometry = node.geometry
                        /\ Len(row.node_lines) = Cardinality(other)
                        /\ \A n \in 1 .. Len(row.node_lines) :
                               /\ Len(row.node_lines[n]) = 2
                               /\ row.node_lines[n][2] = node.geometry
                               /\ \E ik \in other :
                                      row.node_lines[n][1] =
                                          WktPoint(Round4(
                                              clipped_lines[ik[1]][ik[2]]))
                        /\ \A ik \in other :
                               \E n \in 1 .. Len(row.node_lines) :
                                   row.node_lines[n][1] =
                                       WktPoint(Round4(
                                           clipped_lines[ik[1]][ik[2]]))

\* the end of a line on the inside of another line: the line that passes
\* gives two segments, the line that ends gives one
C12_Witness ==
    /\ pc = "analysed"
    /\ \E node \in nodes_df : \E row \in pre_analysis :
           LET met == { i \in 1 .. Len(clipped_lines) :
                          Intersection(clipped_lines[i], node.geometry,
                                       BufferRadius) # << >> }
           IN  /\ node.num_coords = 1
               /\ row.geometry = node.geometry
               /\ Cardinality(met) = 2
               /\ Len(row.node_lines) = 3
               /\ \E i \in met : \A k \in 1 .. Len(clipped_lines[i]) :
                      Round4(clipped_lines[i][k]) # node.geometry

----------------------------------------------------------------------------
(* Properties of the angles and the lines of a row *)

\* C13, as stated: every row of the classification table has one angle for
\* every line resolved for its node, the lines counted before the adjustment
\* of num_lines; a node whose buffer is cut into a number of sectors other
\* than the number of its lines has no row, and the run does not raise.
C13_OneAnglePerLine ==
    /\ pc # "raised"
    /\ (pc \in {"analysed", "done"}) =>
           /\ \A row \in node_analysis_df :
                  \E pre \in pre_analysis :
                      /\ pre.geometry = row.geometry
                      /\ Len(row.degrees) = Len(pre.node_lines)
           /\ \A pre \in pre_analysis :
                  (Len(CalculateNodeAngles(pre.buffer, pre.node_lines))
                       # Len(pre.node_lines))
                      => \A row \in node_analysis_df :
                             row.geometry # pre.geometry

====
